---- MODULE Spec2Model ----
\* Model of src/main.py: FileCategorizer (extension -> folder grouping of the
\* top level of one directory) and FileOrganizerGUI (mapping rows, Preview,
\* Done).  Text is a sequence of one-character strings, so that strip(),
\* lower(), lstrip('.') and Path.suffix are computed as Python computes them.
\* A Python dict is a sequence of [k, v] records with unique keys, in
\* insertion order.
EXTENDS Integers, Sequences, FiniteSets, TLC

VARIABLES
    dirState,      \* what the selected path is on disk: "ok", "missing", "notdir", "denied"
    root,          \* top-level entries of the directory in iterdir() order: [name, kind, id]
    sub,           \* entries one level below: [dir, name, kind, id]
    selected_dir,  \* FileOrganizerGUI.selected_dir: "None" or "dir"
    mapping_rows,  \* FileOrganizerGUI.mapping_rows: texts of the (ext, folder) entries
    tree,          \* the Treeview: sequence of [k |-> folder, v |-> file names]
    shown,         \* history: what the last preview() found and replaced, <<>> once anything changed
    pc,            \* position of the running handler
    handler,       \* the handler that is running: "none", "preview", "done"
    dialog,        \* message box currently shown
    result,        \* done(): local 'result' (the plan)
    gi, fi,        \* done(): position of the two for loops
    attempted,     \* history: file names whose rename was called in this done()
    reported,      \* history: file names named in a showerror of this done()
    moved,         \* history: file names whose rename succeeded in this done()
    exc,           \* exception that left the handler: "none", "scan", "mkdir"
    before,        \* history: <<root, sub>> as done() found them, <<>> outside done()
    files0         \* history: ids of the regular files on disk at start

vars == <<dirState, root, sub, selected_dir, mapping_rows, tree, shown, pc, handler,
          dialog, result, gi, fi, attempted, reported, moved, exc, before, files0>>

----
\* Bounds
MaxRows == 2       \* mapping rows in the editor
MaxEntries == 3    \* top-level entries of the directory at start

----
\* Text

Whitespace == {" "}

UpperToLower ==
    [c \in {"J", "P", "I"} |->
        CASE c = "J" -> "j" [] c = "P" -> "p" [] c = "I" -> "i"]

LowerKeepCase(s) == s

lower(s) ==
    [i \in 1..Len(s) |-> IF s[i] \in DOMAIN UpperToLower THEN UpperToLower[s[i]] ELSE s[i]]

RECURSIVE lstrip(_, _)
lstrip(s, chars) ==
    IF s # <<>> /\ Head(s) \in chars THEN lstrip(Tail(s), chars) ELSE s

RECURSIVE rstrip(_, _)
rstrip(s, chars) ==
    IF s # <<>> /\ s[Len(s)] \in chars THEN rstrip(SubSeq(s, 1, Len(s) - 1), chars) ELSE s

strip(s) == rstrip(lstrip(s, Whitespace), Whitespace)

\* str.rfind, 1-based; 0 when absent
rfind(s, c) ==
    LET hits == {i \in 1..Len(s) : s[i] = c}
    IN  IF hits = {} THEN 0 ELSE CHOOSE i \in hits : \A j \in hits : j <= i

\* PurePath.suffix: the last dot and what follows it, unless the dot is the
\* first or the last character of the name
suffix(name) ==
    LET i == rfind(name, ".")
    IN  IF 1 < i /\ i < Len(name) THEN SubSeq(name, i, Len(name)) ELSE <<>>

\* item.suffix.lower().lstrip('.')
item_ext(name) == lstrip(lower(suffix(name)), {"."})

----
\* dict

Keys(d) == {d[i].k : i \in DOMAIN d}

Values(d) == {d[i].v : i \in DOMAIN d}

Get(d, key) == d[CHOOSE i \in DOMAIN d : d[i].k = key].v

\* d[key] = val
SetItem(d, key, val) ==
    IF key \in Keys(d)
    THEN [i \in DOMAIN d |-> IF d[i].k = key THEN [k |-> key, v |-> val] ELSE d[i]]
    ELSE Append(d, [k |-> key, v |-> val])

SetdefaultOverwrite(d, key, item) == SetItem(d, key, <<item>>)

\* d.setdefault(key, []).append(item)
SetdefaultAppend(d, key, item) ==
    IF key \in Keys(d)
    THEN SetItem(d, key, Append(Get(d, key), item))
    ELSE SetItem(d, key, <<item>>)

----
\* FileCategorizer

RECURSIVE NormalizeInto(_, _)
NormalizeInto(items, acc) ==
    IF items = <<>> THEN acc
    ELSE NormalizeInto(Tail(items),
                       SetItem(acc, lstrip(lower(Head(items).k), {"."}), Head(items).v))

\* FileCategorizer.__init__: self.ext_map
FileCategorizer(ext_map) == NormalizeInto(ext_map, <<>>)

is_file_any(entry) == TRUE

is_file(entry) == entry.kind = "file"

RECURSIVE CategorizeFrom(_, _, _)
CategorizeFrom(ext_map, items, acc) ==
    IF items = <<>> THEN acc
    ELSE LET item == Head(items)
             ext == item_ext(item.name)
         IN  CategorizeFrom(ext_map, Tail(items),
                 IF is_file(item) /\ ext \in Keys(ext_map)
                 THEN SetdefaultAppend(acc, Get(ext_map, ext), item.name)
                 ELSE acc)

\* FileCategorizer.categorize on a listing
categorize(ext_map, listing) == CategorizeFrom(ext_map, listing, <<>>)

----
\* FileOrganizerGUI.get_mappings

RECURSIVE MappingsFrom(_, _)
MappingsFrom(rows, acc) ==
    IF rows = <<>> THEN acc
    ELSE LET ext == lstrip(lower(strip(Head(rows).ext)), {"."})
             folder == strip(Head(rows).folder)
         IN  MappingsFrom(Tail(rows),
                 IF ext # <<>> /\ folder # <<>> THEN SetItem(acc, ext, folder) ELSE acc)

get_mappings == MappingsFrom(mapping_rows, <<>>)

----
\* The directory on disk

Range(seq) == {seq[i] : i \in DOMAIN seq}

\* Candidate top-level entries, in the order iterdir() yields them
Pool ==
    << [name |-> <<"a", ".", "j">>, kind |-> "file", id |-> 1],
       [name |-> <<"I">>,           kind |-> "file", id |-> 2],
       [name |-> <<"c", ".", "p">>, kind |-> "file", id |-> 3],
       [name |-> <<"b", ".", "J">>, kind |-> "file", id |-> 4],
       [name |-> <<"d", ".", "j">>, kind |-> "dir",  id |-> 5] >>

\* What the subdirectory d.j holds when it exists at start
PoolSub ==
    { [dir |-> <<"d", ".", "j">>, name |-> <<"c", ".", "p">>, kind |-> "file", id |-> 6],
      [dir |-> <<"d", ".", "j">>, name |-> <<"a", ".", "j">>, kind |-> "dir",  id |-> 7] }

RECURSIVE Pick(_, _)
Pick(seq, keep) ==
    IF seq = <<>> THEN <<>>
    ELSE IF Head(seq).id \in keep THEN <<Head(seq)>> \o Pick(Tail(seq), keep)
         ELSE Pick(Tail(seq), keep)

Listings ==
    {Pick(Pool, keep) : keep \in {S \in SUBSET {e.id : e \in Range(Pool)} :
                                      Cardinality(S) <= MaxEntries}}

exists(listing, name) == \E e \in Range(listing) : e.name = name

entry(listing, name) == CHOOSE e \in Range(listing) : e.name = name

UnlinkKeep(listing, name) == listing

\* the source side of a successful rename: the name leaves the directory
Unlink(listing, name) ==
    LET i == CHOOSE j \in DOMAIN listing : listing[j].name = name
    IN  SubSeq(listing, 1, i - 1) \o SubSeq(listing, i + 1, Len(listing))

\* Path.mkdir(exist_ok=True) on root/folder raises FileExistsError when the
\* name is taken by something that is not a directory
mkdir_raises(listing, folder) ==
    exists(listing, folder) /\ entry(listing, folder).kind # "dir"

\* the listing after a mkdir(exist_ok=True) that did not raise
mkdir(listing, folder) ==
    IF exists(listing, folder) THEN listing
    ELSE Append(listing, [name |-> folder, kind |-> "dir", id |-> 0])

\* what is at root/folder/name
dest(below, folder, name) == {e \in below : e.dir = folder /\ e.name = name}

----
\* User input

Blank == [ext |-> <<>>, folder |-> <<>>]

RowTexts ==
    { [ext |-> <<"j">>,           folder |-> <<"I">>],
      [ext |-> <<" ", ".", "J">>, folder |-> <<"d", ".", "j", " ">>],
      [ext |-> <<"p">>,           folder |-> <<"d", ".", "j">>] }

----
Init ==
    /\ dirState \in {"ok", "missing", "notdir", "denied"}
    /\ root \in IF dirState \in {"ok", "denied"} THEN Listings ELSE {<<>>}
    /\ sub = IF exists(root, <<"d", ".", "j">>) THEN PoolSub ELSE {}
    /\ selected_dir = "None"
    /\ mapping_rows = <<Blank>>
    /\ tree = <<>>
    /\ shown = <<>>
    /\ pc = "idle"
    /\ handler = "none"
    /\ dialog = "none"
    /\ result = <<>>
    /\ gi = 0
    /\ fi = 0
    /\ attempted = {}
    /\ reported = {}
    /\ moved = {}
    /\ exc = "none"
    /\ before = <<>>
    /\ files0 = {e.id : e \in {x \in Range(root) \cup sub : x.kind = "file"}}

locals == <<handler, result, gi, fi, attempted, reported, moved, exc, before>>

\* the tree shows a preview() of the directory and the rows as they are now
fresh == shown # <<>>

disk == <<dirState, root, sub, files0>>

ClearLocals ==
    /\ handler' = "none"
    /\ result' = <<>>
    /\ gi' = 0
    /\ fi' = 0
    /\ attempted' = {}
    /\ reported' = {}
    /\ moved' = {}
    /\ exc' = "none"
    /\ before' = <<>>

----
\* FileOrganizerGUI handlers

\* select_folder: askdirectory() returns "" when the chooser is cancelled
select_folder ==
    /\ pc = "idle"
    /\ \E path \in {"", "dir"} :
          selected_dir' = IF path # "" THEN path ELSE selected_dir
    /\ shown' = IF selected_dir' = selected_dir THEN shown ELSE <<>>
    /\ UNCHANGED <<disk, mapping_rows, tree, pc, dialog, locals>>

add_mapping_row ==
    /\ pc = "idle"
    /\ Len(mapping_rows) < MaxRows
    /\ mapping_rows' = Append(mapping_rows, Blank)
    /\ shown' = <<>>
    /\ UNCHANGED <<disk, selected_dir, tree, pc, dialog, locals>>

remove_mapping_row ==
    /\ pc = "idle"
    /\ \E i \in DOMAIN mapping_rows :
          mapping_rows' = SubSeq(mapping_rows, 1, i - 1)
                          \o SubSeq(mapping_rows, i + 1, Len(mapping_rows))
    /\ shown' = <<>>
    /\ UNCHANGED <<disk, selected_dir, tree, pc, dialog, locals>>

\* the user types into the two Entry widgets of a row
type_row ==
    /\ pc = "idle"
    /\ \E i \in DOMAIN mapping_rows : \E r \in RowTexts :
          /\ mapping_rows[i] # r
          /\ mapping_rows' = [mapping_rows EXCEPT ![i] = r]
    /\ shown' = <<>>
    /\ UNCHANGED <<disk, selected_dir, tree, pc, dialog, locals>>

iterdir_never_raises(state) == FALSE

\* Path.iterdir() raises when the path is missing, no directory or unreadable
iterdir_raises(state) == state # "ok"

tree_keep(items) == items

\* for item in self.tree.get_children(): self.tree.delete(item)
tree_delete_all(items) == <<>>

preview ==
    /\ pc = "idle"
    /\ IF selected_dir = "None"
       THEN /\ pc' = "dialog"
            /\ dialog' = "select_folder_first"
            /\ UNCHANGED <<tree, shown, exc>>
       ELSE IF get_mappings = <<>>
       THEN /\ pc' = "dialog"
            /\ dialog' = "add_mapping_rule"
            /\ UNCHANGED <<tree, shown, exc>>
       ELSE IF iterdir_raises(dirState)
       THEN /\ pc' = "raised"
            /\ exc' = "scan"
            /\ UNCHANGED <<tree, shown, dialog>>
       ELSE /\ tree' = tree_delete_all(tree)
                       \o categorize(FileCategorizer(get_mappings), root)
            /\ shown' = <<[root |-> root, sub |-> sub, again |-> fresh,
                            tree |-> IF fresh THEN tree ELSE <<>>]>>
            /\ UNCHANGED <<pc, dialog, exc>>
    /\ handler' = IF pc' = "idle" THEN "none" ELSE "preview"
    /\ UNCHANGED <<disk, selected_dir, mapping_rows, result, gi, fi,
                   attempted, reported, moved, before>>

move_failure_breaks(plan, g, f) == [pc |-> "finished", gi |-> g, fi |-> f]

\* where the two for loops of done() are after the file at (g, f)
next_step(plan, g, f) ==
    IF f < Len(plan[g].v) THEN [pc |-> "rename", gi |-> g, fi |-> f + 1]
    ELSE IF g < Len(plan) THEN [pc |-> "mkdir", gi |-> g + 1, fi |-> 0]
    ELSE [pc |-> "finished", gi |-> g, fi |-> f]

\* except Exception: showerror(...), and the loop goes on
after_failed_move(plan, g, f) == next_step(plan, g, f)

\* done(), up to the first iteration of the outer loop
done ==
    /\ pc = "idle"
    /\ IF selected_dir = "None"
       THEN /\ pc' = "dialog"
            /\ dialog' = "select_folder_first"
            /\ UNCHANGED <<result, gi, fi, exc>>
       ELSE IF get_mappings = <<>>
       THEN /\ pc' = "dialog"
            /\ dialog' = "no_mapping_rules"
            /\ UNCHANGED <<result, gi, fi, exc>>
       ELSE IF iterdir_raises(dirState)
       THEN /\ pc' = "raised"
            /\ exc' = "scan"
            /\ UNCHANGED <<result, gi, fi, dialog>>
       ELSE LET plan == categorize(FileCategorizer(get_mappings), root)
            IN  /\ result' = plan
                /\ IF plan = <<>>
                   THEN pc' = "finished" /\ dialog' = "organized" /\ gi' = 0
                   ELSE pc' = "mkdir" /\ dialog' = dialog /\ gi' = 1
                /\ fi' = 0
                /\ exc' = exc
    /\ handler' = "done"
    /\ before' = <<root, sub>>
    /\ UNCHANGED <<disk, selected_dir, mapping_rows, tree, shown,
                   attempted, reported, moved>>

\* target_dir.mkdir(exist_ok=True) for the group at gi
done_mkdir ==
    /\ pc = "mkdir"
    /\ LET folder == result[gi].k
       IN  IF mkdir_raises(root, folder)
           THEN /\ pc' = "raised"
                /\ exc' = "mkdir"
                /\ UNCHANGED <<root, fi, shown>>
           ELSE /\ root' = mkdir(root, folder)
                /\ pc' = "rename"
                /\ fi' = 1
                /\ shown' = <<>>
                /\ exc' = exc
    /\ UNCHANGED <<dirState, sub, files0, selected_dir, mapping_rows, tree, dialog,
                   handler, result, gi, attempted, reported, moved, before>>

\* src.rename(dst) for the file at (gi, fi).  os.rename replaces an existing
\* destination file on POSIX and raises on Windows; it raises when the
\* destination is a directory; and it may raise for reasons outside the
\* program (permissions, a busy file).
done_rename ==
    /\ pc = "rename"
    /\ LET folder == result[gi].k
           name == result[gi].v[fi]
           there == dest(sub, folder, name)
       IN  \E ok \in BOOLEAN :
             /\ ok => /\ exists(root, name)
                      /\ \A e \in there : e.kind = "file"
             /\ attempted' = attempted \cup {name}
             /\ IF ok
                THEN LET src == entry(root, name)
                         nxt == next_step(result, gi, fi)
                     IN  /\ root' = Unlink(root, name)
                         /\ sub' = (sub \ there)
                                   \cup {[dir |-> folder, name |-> name,
                                          kind |-> src.kind, id |-> src.id]}
                         /\ moved' = moved \cup {name}
                         /\ reported' = reported
                         /\ pc' = nxt.pc /\ gi' = nxt.gi /\ fi' = nxt.fi
                ELSE LET nxt == after_failed_move(result, gi, fi)
                     IN  /\ reported' = reported \cup {name}
                         /\ UNCHANGED <<root, sub, moved>>
                         /\ pc' = nxt.pc /\ gi' = nxt.gi /\ fi' = nxt.fi
    /\ dialog' = IF pc' = "finished" THEN "organized" ELSE dialog
    /\ shown' = <<>>
    /\ UNCHANGED <<dirState, files0, selected_dir, mapping_rows, tree, handler,
                   result, exc, before>>

\* the user closes the message box; the handler returns to mainloop()
dismiss ==
    /\ pc \in {"dialog", "finished"}
    /\ pc' = "idle"
    /\ dialog' = "none"
    /\ ClearLocals
    /\ UNCHANGED <<disk, selected_dir, mapping_rows, tree, shown>>

\* an exception left the handler: Tk reports it and mainloop() goes on
report_callback_exception ==
    /\ pc = "raised"
    /\ pc' = "idle"
    /\ ClearLocals
    /\ UNCHANGED <<disk, selected_dir, mapping_rows, tree, shown, dialog>>

Next ==
    \/ select_folder
    \/ add_mapping_row
    \/ remove_mapping_row
    \/ type_row
    \/ preview
    \/ done
    \/ done_mkdir
    \/ done_rename
    \/ dismiss
    \/ report_callback_exception

Spec == Init /\ [][Next]_vars

----
\* Vocabulary of the properties

\* the categorizer that preview() and done() build from the rows
ext_map == FileCategorizer(get_mappings)

PlanFiles(plan) == UNION {Range(plan[g].v) : g \in DOMAIN plan}

\* the files of the plan that precede position (g, f) of the loops
Before(plan, g, f) ==
    UNION {Range(plan[h].v) : h \in {x \in DOMAIN plan : x < g}}
    \cup (IF g \in DOMAIN plan THEN {plan[g].v[i] : i \in 1..(f - 1)} ELSE {})

\* how many times a name is listed in a grouping
Occurrences(grouping, name) ==
    Cardinality({p \in UNION {{<<g, i>> : i \in DOMAIN grouping[g].v} : g \in DOMAIN grouping} :
                    grouping[p[1]].v[p[2]] = name})

InGroup(grouping, folder, name) ==
    \E g \in DOMAIN grouping : grouping[g].k = folder /\ name \in Range(grouping[g].v)

\* letters regardless of case, written out independently of lower()
Fold(s) ==
    [i \in 1..Len(s) |->
        CASE s[i] = "J" -> "j" [] s[i] = "P" -> "p" [] s[i] = "I" -> "i"
          [] OTHER -> s[i]]

\* the extension of a file name: what follows its last dot (none when the
\* name has no dot, or only a leading or a trailing one)
ExtensionOf(name) ==
    IF \E i \in 2..(Len(name) - 1) : name[i] = "."
    THEN LET last == CHOOSE i \in 2..(Len(name) - 1) :
                        /\ name[i] = "."
                        /\ \A j \in (i + 1)..Len(name) : name[j] # "."
         IN  SubSeq(name, last + 1, Len(name))
    ELSE <<>>

RootFiles == {e \in Range(root) : e.kind = "file"}

Everywhere == Range(root) \cup sub

\* the regular files that can only be in a subfolder because done() moved them
StartedAtRoot == {e.id : e \in {x \in Range(Pool) : x.kind = "file"}}

\* a structural error: nothing selected, no rule, or a directory that cannot be listed
StructuralError == selected_dir = "None" \/ get_mappings = <<>> \/ dirState # "ok"

----
\* C1: during done(), a failed rename never aborts the batch: each failure is
\* reported, every file of the plan before the current position has been
\* attempted, and when the loops end every planned file has been attempted.
C1_FailedMoveNeverAborts ==
    /\ (attempted \ moved) \subseteq reported
    /\ pc \in {"mkdir", "rename"} => attempted = Before(result, gi, fi)
    /\ pc = "finished" => attempted = PlanFiles(result)

\* a file of the plan was moved after an earlier one had failed
C1_Witness ==
    /\ pc = "finished"
    /\ \E g \in DOMAIN result : \E i \in DOMAIN result[g].v : \E h \in DOMAIN result :
          \E j \in DOMAIN result[h].v :
             /\ g < h \/ (g = h /\ i < j)
             /\ result[g].v[i] \in reported
             /\ result[h].v[j] \in moved

\* C2 (as claimed): when the folder of one group cannot be created, every
\* other group of the plan is still processed.
C2_FolderFailureIsolated ==
    (pc = "raised" /\ exc = "mkdir") =>
        \A g \in DOMAIN result : g # gi => Range(result[g].v) \subseteq attempted

\* C3 (as claimed): every top-level file is listed exactly once by Preview, in
\* its mapped group or a fallback group, and no subdirectory is listed.
C3_EveryFileInOneGroup ==
    fresh => \A e \in Range(root) :
                Occurrences(tree, e.name) = IF e.kind = "file" THEN 1 ELSE 0

\* C3 (amended): Preview lists exactly the top-level files whose extension is
\* mapped, each exactly once; unmapped files and subdirectories are not listed.
C3_MappedFilesInOneGroup ==
    fresh =>
        LET mapped == Keys(ext_map)
        IN  /\ \A e \in Range(root) :
                  Occurrences(tree, e.name) =
                      IF e.kind = "file" /\ item_ext(e.name) \in mapped THEN 1 ELSE 0
            /\ PlanFiles(tree) \subseteq {e.name : e \in RootFiles}

\* two files share a group, next to an unmapped file and a subdirectory
C3_Witness ==
    /\ fresh
    /\ \E g \in DOMAIN tree : Len(tree[g].v) = 2
    /\ \E e \in RootFiles : item_ext(e.name) \notin Keys(ext_map)

\* C4: during and after done(), every top-level file whose extension is not
\* mapped and every subdirectory is where done() found it, and the only new
\* top-level entries are folders named by the mapping.
C4_ApplyLeavesUnmappedUntouched ==
    handler = "done" =>
        LET rules == ext_map
        IN  /\ \A e \in Range(before[1]) :
                  (e.kind = "dir" \/ item_ext(e.name) \notin Keys(rules)) => e \in Range(root)
            /\ \A e \in Range(root) \ Range(before[1]) :
                  e.kind = "dir" /\ e.name \in Values(rules)

\* done() moved a file while an unmapped file and a subdirectory whose name
\* carries a mapped extension stayed
C4_Witness ==
    /\ pc = "finished"
    /\ moved # {}
    /\ \E e \in RootFiles : item_ext(e.name) \notin Keys(ext_map)
    /\ \E e \in Range(root) : e.kind = "dir" /\ item_ext(e.name) \in Keys(ext_map)

\* C5: preview() leaves the directory as it found it, and a preview() that
\* follows a preview() with nothing changed in between shows the same grouping.
C5_PreviewReadOnlyAndRepeatable ==
    fresh => /\ root = shown[1].root
             /\ sub = shown[1].sub
             /\ shown[1].again => tree = shown[1].tree

\* a second Preview in a row has filled the tree with a grouping of the directory
C5_Witness == fresh /\ shown[1].again /\ tree # <<>> /\ Len(root) > 1

\* C6: with nothing selected, no mapping rule, or a directory that is missing,
\* no directory or unreadable, done() stops before its loops: it has attempted
\* no move and the directory is as done() found it.
C6_StructuralErrorMutatesNothing ==
    (handler = "done" /\ StructuralError) =>
        /\ pc \in {"dialog", "raised"}
        /\ attempted = {}
        /\ <<root, sub>> = before

\* done() was stopped by the directory scan although rules and files exist
C6_Witness ==
    /\ handler = "done"
    /\ pc = "raised"
    /\ exc = "scan"
    /\ get_mappings # <<>>
    /\ categorize(ext_map, root) # <<>>

\* C7 (as claimed): a Preview after done() shows every moved file under its
\* new subfolder and not at the root.
C7_MovedFilesShownInSubfolder ==
    fresh => \A e \in sub : e.id \in StartedAtRoot => InGroup(tree, e.dir, e.name)

\* C7 (amended): a Preview after done() does not list a moved file at all.
C7_MovedFilesNotListed ==
    fresh => \A e \in sub : e.id \in StartedAtRoot => Occurrences(tree, e.name) = 0

\* a Preview after done(): one file was moved, another is still listed
C7_Witness ==
    /\ fresh
    /\ tree # <<>>
    /\ \E e \in sub : e.id \in StartedAtRoot

\* C8 (as claimed): for every key k of the mapping and every file f, f is in
\* k's folder exactly when the extension of f equals k, case and leading dots
\* aside.
C8_InFolderOfKeyIffExtensionMatches ==
    fresh => \A i \in DOMAIN mapping_rows : \A e \in RootFiles :
                (strip(mapping_rows[i].ext) # <<>> /\ strip(mapping_rows[i].folder) # <<>>) =>
                    (InGroup(tree, strip(mapping_rows[i].folder), e.name)
                        <=> Fold(ExtensionOf(e.name))
                              = Fold(lstrip(strip(mapping_rows[i].ext), {"."})))

\* the rule that decides for an extension: the last complete row whose key is
\* that extension, case and leading dots aside
Deciding(extension) ==
    LET hits == {i \in DOMAIN mapping_rows :
                    /\ strip(mapping_rows[i].folder) # <<>>
                    /\ Fold(lstrip(strip(mapping_rows[i].ext), {"."})) = extension}
    IN  IF hits = {} \/ extension = <<>> THEN 0
        ELSE CHOOSE i \in hits : \A j \in hits : j <= i

\* C8 (amended): a file is listed, under its own name, in the folder of the
\* last rule whose key equals its extension (case and leading dots aside) and
\* in no other group; a file with no such rule is in no group.
C8_InFolderOfLastMatchingKey ==
    fresh => \A e \in RootFiles :
                LET rule == Deciding(Fold(ExtensionOf(e.name)))
                IN  \A g \in DOMAIN tree :
                       (e.name \in Range(tree[g].v))
                           <=> (rule # 0 /\ tree[g].k = strip(mapping_rows[rule].folder))

\* b.J is listed under the folder of a later rule that spells the key .J
C8_Witness ==
    /\ fresh
    /\ Len(mapping_rows) = 2
    /\ Fold(lstrip(strip(mapping_rows[1].ext), {"."})) = Fold(lstrip(strip(mapping_rows[2].ext), {"."}))
    /\ mapping_rows[1].ext # mapping_rows[2].ext
    /\ InGroup(tree, strip(mapping_rows[2].folder), <<"b", ".", "J">>)

\* C9 (as claimed): when done() ends, every planned file that was not moved
\* has been reported to the user.
C9_NoFailureDropped ==
    (handler = "done" /\ pc \in {"finished", "raised"}) =>
        (PlanFiles(result) \ moved) \subseteq reported

\* C10 (as claimed): every regular file on disk at start is in exactly one
\* place, at the root or in a subfolder, under its name.
C10_FilesConserved ==
    \A id \in files0 : Cardinality({e \in Everywhere : e.id = id}) = 1

====
